---- MODULE Spec2Model ----
(***************************************************************************)
(* Model of src/main.py: the greedy line wrapper split_text_into_lines and *)
(* the paragraph loop of process_docx that turns a transcript into a       *)
(* two-column table.  Strings are sequences of one-character strings, so   *)
(* the regular expressions, strip, split, replace and join are computed    *)
(* character by character as Python computes them.                         *)
(***************************************************************************)
EXTENDS Integers, Sequences, FiniteSets, TLC

VARIABLES pc, exists, opened, paras, text, rows,
          segment_count, skip_pages, saved, result,
          s_pc, s_text, s_max, s_lines

vars == <<pc, exists, opened, paras, text, rows,
          segment_count, skip_pages, saved, result,
          s_pc, s_text, s_max, s_lines>>

docx_vars == <<pc, exists, opened, paras, text, rows,
               segment_count, skip_pages, saved, result>>

split_vars == <<s_pc, s_text, s_max, s_lines>>

-----------------------------------------------------------------------------
(* Bounds of the model *)

\* paragraphs read from an input document of arbitrary paragraphs
MaxParas == 3
\* paragraphs read from an input document made of segment markers only
MaxSegments == 100
\* length of the texts handed to split_text_into_lines on its own
MaxTextLen == 8
\* largest max_length handed to split_text_into_lines on its own
MaxWidth == 3

-----------------------------------------------------------------------------
(* Characters and Python string primitives *)

Digits == {"0", "1", "2", "3", "4", "5", "6", "7", "8", "9"}

Upper == {"A", "B", "C", "D", "E", "F", "G", "H", "I", "J", "K", "L", "M",
          "N", "O", "P", "Q", "R", "S", "T", "U", "V", "W", "X", "Y", "Z"}

Lower == {"a", "b", "c", "d", "e", "f", "g", "h", "i", "j", "k", "l", "m",
          "n", "o", "p", "q", "r", "s", "t", "u", "v", "w", "x", "y", "z"}

Whitespace == {" ", "\t", "\n"}

IsSpace(c) == c \in Whitespace

IsDigit(c) == c \in Digits

\* \w of the re module, the class that decides \b
IsWord(c) == c \in Digits \cup Upper \cup Lower \cup {"_"}

\* the character at index i, "" outside the string
At(s, i) == IF i >= 1 /\ i <= Len(s) THEN s[i] ELSE ""

Rep(c, n) == [i \in 1..n |-> c]

RECURSIVE lstrip(_)
lstrip(s) == IF s # <<>> /\ IsSpace(Head(s)) THEN lstrip(Tail(s)) ELSE s

RECURSIVE rstrip(_)
rstrip(s) ==
    IF s # <<>> /\ IsSpace(s[Len(s)]) THEN rstrip(SubSeq(s, 1, Len(s) - 1))
    ELSE s

\* str.strip()
strip(s) == rstrip(lstrip(s))

\* str.rstrip(':')
RECURSIVE rstrip_colon(_)
rstrip_colon(s) ==
    IF s # <<>> /\ s[Len(s)] = ":" THEN rstrip_colon(SubSeq(s, 1, Len(s) - 1))
    ELSE s

\* least element of a non-empty set of integers
Min(S) == CHOOSE x \in S : \A y \in S : x <= y

\* number of leading non-whitespace characters
WordLen(s) ==
    LET spaces == {i \in 1..Len(s) : IsSpace(s[i])} IN
    IF spaces = {} THEN Len(s) ELSE Min(spaces) - 1

\* str.split(): the maximal runs of non-whitespace characters, in order
RECURSIVE split(_)
split(s) ==
    LET t == lstrip(s) IN
    IF t = <<>> THEN <<>>
    ELSE LET n == WordLen(t) IN
         <<SubSeq(t, 1, n)>> \o split(SubSeq(t, n + 1, Len(t)))

\* ' '.join(words)
RECURSIVE join(_)
join(words) ==
    IF words = <<>> THEN <<>>
    ELSE IF Len(words) = 1 THEN words[1]
    ELSE words[1] \o <<" ">> \o join(Tail(words))

\* sub in s
Contains(s, sub) ==
    \E i \in 1..(Len(s) - Len(sub) + 1) : SubSeq(s, i, i + Len(sub) - 1) = sub

\* s.replace(old, ""), old not empty: every non-overlapping occurrence, left to right
RECURSIVE replace_empty(_, _)
replace_empty(s, old) ==
    LET found == {i \in 1..(Len(s) - Len(old) + 1) :
                      SubSeq(s, i, i + Len(old) - 1) = old}
    IN  IF found = {} THEN s
        ELSE SubSeq(s, 1, Min(found) - 1)
                 \o replace_empty(SubSeq(s, Min(found) + Len(old), Len(s)), old)

\* s.endswith(suffix)
endswith(s, suffix) ==
    Len(s) >= Len(suffix) /\ SubSeq(s, Len(s) - Len(suffix) + 1, Len(s)) = suffix

\* the decimal digits of n >= 0
RECURSIVE DecimalDigits(_)
DecimalDigits(n) ==
    LET d == <<"0", "1", "2", "3", "4", "5", "6", "7", "8", "9">>[(n % 10) + 1] IN
    IF n < 10 THEN <<d>> ELSE DecimalDigits(n \div 10) \o <<d>>

\* f"{n}": the padding forgotten
format_unpadded(n) == DecimalDigits(n)

\* f"{n:02d}"
format_02d(n) ==
    LET ds == DecimalDigits(n) IN IF Len(ds) < 2 THEN <<"0">> \o ds ELSE ds

-----------------------------------------------------------------------------
(* split_text_into_lines *)

\* line 32 with the joining space forgotten
Fits_NoSpace(current_length, word, max_length) ==
    current_length + Len(word) <= max_length

\* the test of line 32: the word, and a space when the line is not empty, still fits
Fits(current_length, word, max_length) ==
    current_length + Len(word) + (IF current_length > 0 THEN 1 ELSE 0) <= max_length

\* lines 36-37 and 41-42 without the test for an empty line
Flush_Unguarded(lines, current_line) == Append(lines, join(current_line))

\* lines 36-37 and 41-42: the current line is emitted only when it holds a word
Flush(lines, current_line) ==
    IF current_line # <<>> THEN Append(lines, join(current_line)) ELSE lines

\* the for loop of lines 31-39 from word i on, then lines 41-42
RECURSIVE wrap_loop(_, _, _, _, _, _)
wrap_loop(words, i, lines, current_line, current_length, max_length) ==
    IF i > Len(words) THEN Flush(lines, current_line)
    ELSE LET word == words[i] IN
         IF Fits(current_length, word, max_length)
         THEN wrap_loop(words, i + 1, lines, Append(current_line, word),
                        current_length + Len(word)
                            + (IF current_length > 0 THEN 1 ELSE 0),
                        max_length)
         ELSE wrap_loop(words, i + 1, Flush(lines, current_line), <<word>>,
                        Len(word), max_length)

split_text_into_lines(t, max_length) ==
    wrap_loop(split(t), 1, <<>>, <<>>, 0, max_length)

-----------------------------------------------------------------------------
(* The regular expressions of process_docx *)

\* \b before index p
WordBoundary(s, p) == IsWord(At(s, p - 1)) # IsWord(At(s, p))

DigitsAt(s, i, n) == \A j \in i..(i + n - 1) : IsDigit(At(s, j))

\* \b(\d{1,2}:\d{2}(?::\d{2})?)\b tried at index i: the index of the last
\* character of the match, 0 when there is none.  Both quantifiers are greedy.
TimecodeEndAt(s, i) ==
    LET Core(d) == /\ DigitsAt(s, i, d)
                   /\ At(s, i + d) = ":"
                   /\ DigitsAt(s, i + d + 1, 2)
        Long(d) == /\ Core(d)
                   /\ At(s, i + d + 3) = ":"
                   /\ DigitsAt(s, i + d + 4, 2)
                   /\ WordBoundary(s, i + d + 6)
        Short(d) == Core(d) /\ WordBoundary(s, i + d + 3)
    IN  IF ~WordBoundary(s, i) THEN 0
        ELSE IF Long(2) THEN i + 7
        ELSE IF Short(2) THEN i + 4
        ELSE IF Long(1) THEN i + 6
        ELSE IF Short(1) THEN i + 3
        ELSE 0

\* pattern.search(s).group(1), <<>> when search returns None: the match at
\* the leftmost index that has one
segment_marker_pattern_search(s) ==
    LET starts == {i \in 1..Len(s) : TimecodeEndAt(s, i) # 0} IN
    IF starts = {} THEN <<>>
    ELSE SubSeq(s, Min(starts), TimecodeEndAt(s, Min(starts)))

\* timecode_pattern.match(s).group(0), <<>> when match returns None
timecode_pattern_match(s) ==
    IF TimecodeEndAt(s, 1) # 0 THEN SubSeq(s, 1, TimecodeEndAt(s, 1)) ELSE <<>>

\* number of leading characters of s in [A-Z]
RECURSIVE UpperRun(_)
UpperRun(s) == IF s = <<>> \/ Head(s) \notin Upper THEN 0 ELSE 1 + UpperRun(Tail(s))

\* ^[A-Z]+:?\s
speaker_pattern_match(s) ==
    LET n == UpperRun(s) IN
    /\ n >= 1
    /\ \/ At(s, n + 1) = ":" /\ IsSpace(At(s, n + 2))
       \/ IsSpace(At(s, n + 1))

-----------------------------------------------------------------------------
(* Page geometry, in English Metric Units (914400 to the inch) *)

EmuPerInch == 914400

\* width of the page of a new Document(): 8.5 inches
page_width == 7772400

\* Inches(0.7)
left_margin == 640080

\* Inches(0.5)
right_margin == 457200

\* the 2.7 inches added on line 18
width_allowance == 2468880

\* int(available_width / 0.1) with available_width in inches
get_available_width ==
    ((page_width - left_margin - right_margin + width_allowance) * 10) \div EmuPerInch

separator_length == get_available_width + 4

MAX_LINE_LENGTH == 90

-----------------------------------------------------------------------------
(* Rows of the output table *)

\* add_row_content: a merged full-width row holding text, or a bare row
add_row_content(table, t, is_separator, is_bold) ==
    IF is_separator
    THEN Append(table, [merged |-> TRUE, text |-> t, bold |-> is_bold,
                        speaker |-> <<>>, content |-> <<>>, color |-> "none"])
    ELSE Append(table, [merged |-> FALSE, text |-> <<>>, bold |-> FALSE,
                        speaker |-> <<>>, content |-> <<>>, color |-> "none"])

\* add_split_content: one row, speaker in column 0 and content in column 1
add_split_content(table, speaker, content, speaker_color) ==
    Append(table, [merged |-> FALSE, text |-> <<>>, bold |-> FALSE,
                   speaker |-> speaker, content |-> content,
                   color |-> IF speaker # <<>> THEN speaker_color ELSE "none"])

\* lines 184-185 iterating over lines[2:], one line too far
add_remaining_lines_from_third(table, lines, i) ==
    table \o [j \in 1..(Len(lines) - i) |->
                 [merged |-> FALSE, text |-> <<>>, bold |-> FALSE,
                  speaker |-> <<>>, content |-> lines[i + j], color |-> "none"]]

\* lines 184-185: one row with an empty speaker for each remaining line
RECURSIVE add_remaining_lines(_, _, _)
add_remaining_lines(table, lines, i) ==
    IF i > Len(lines) THEN table
    ELSE add_remaining_lines(add_split_content(table, <<>>, lines[i], "none"),
                             lines, i + 1)

-----------------------------------------------------------------------------
(* The body of the paragraph loop *)

\* lines 141 and 147 without the test for the dashes
IsSegmentMarker_TimecodeOnly(t) == segment_marker_pattern_search(t) # <<>>

\* the test of lines 141 and 147
IsSegmentMarker(t) ==
    segment_marker_pattern_search(t) # <<>> /\ Contains(t, Rep("-", 10))

\* lines 153-157
segment_text(t, count) ==
    LET timecode == segment_marker_pattern_search(t)
        spacing == separator_length - Len(timecode) - 2 + 26
    IN  timecode \o Rep(" ", spacing) \o <<" ">> \o format_02d(count)

\* lines 148-159: the separator row, then the bold header row
marker_rows(table, t, count) ==
    add_row_content(
        add_row_content(table, Rep("-", separator_length), TRUE, FALSE),
        segment_text(t, count), TRUE, TRUE)

\* lines 165-167
remove_timecode(t) ==
    IF timecode_pattern_match(t) # <<>>
    THEN strip(replace_empty(t, timecode_pattern_match(t)))
    ELSE t

\* lines 171-188: the rows of a line that matches speaker_pattern
speaker_rows(table, t) ==
    LET words == split(t)
        speaker == IF words # <<>> THEN rstrip_colon(words[1]) ELSE <<>>
        content == strip(join(Tail(words)))
    IN  IF content # <<>>
        THEN LET lines == split_text_into_lines(content, MAX_LINE_LENGTH) IN
             add_remaining_lines(
                 add_split_content(table, speaker, lines[1], "red"), lines, 2)
        ELSE add_split_content(table, speaker, <<>>, "red")

\* lines 192-193: the row of a line that does not match speaker_pattern
plain_rows(table, t) ==
    IF t # <<>> THEN add_split_content(table, <<>>, t, "none") ELSE table

\* lines 197: the path the document is saved under
output_path(f) ==
    IF endswith(f, <<".", "d", "o", "c", "x">>) THEN f
    ELSE f \o <<".", "d", "o", "c", "x">>

-----------------------------------------------------------------------------
(* Inputs *)

TC == <<"0", ":", "0", "1">>

TCLong == <<"1", ":", "0", "2", ":", "0", "3">>

SP == <<" ">>

\* paragraphs the input document is drawn from
Paragraphs ==
    { TC \o SP \o Rep("-", 10),
      Rep("-", 12) \o SP \o TCLong \o SP \o TC,
      Rep("-", 10),
      TC,
      <<"a", " ">> \o TC,
      TC \o <<" ", "A", ":", " ", "a">>,
      TC \o <<" ", "A", ":", " ", "a", " ", "1">> \o TC \o <<"2">>,
      <<"A", "B", " ", "a">>,
      <<" ", "A", ":", " ", " ", "a", "\t", "b", " ">>,
      <<"A", ":">>,
      <<"A", ":", " ">> \o Rep("a", 60) \o SP \o Rep("b", 60) \o SP
          \o Rep("c", 29) \o <<" ", "d">>,
      Rep("a", 60) \o SP \o Rep("b", 60) }

\* names the output may be asked to be saved under
OutputFiles ==
    { <<"o">>, <<"o", ".", "d", "o", "c", "x">> }

SplitAlphabet == {"a", "b", " "}

SplitTexts == UNION { [1..n -> SplitAlphabet] : n \in 0..MaxTextLen }

\* the paragraph of a document made of segment markers only
MarkerPara == TC \o SP \o Rep("-", 10)

-----------------------------------------------------------------------------
(* process_docx *)

\* documents of up to MaxParas paragraphs, and documents of up to
\* MaxSegments paragraphs that are all MarkerPara
MayRead(p) ==
    \/ Len(paras) < MaxParas
    \/ /\ Len(paras) < MaxSegments
       /\ p = MarkerPara
       /\ \A i \in 1..Len(paras) : paras[i] = MarkerPara

DocxInit ==
    /\ pc = "start"
    /\ exists \in BOOLEAN
    /\ opened = FALSE
    /\ paras = <<>>
    /\ text = <<>>
    /\ rows = <<>>
    /\ segment_count = 0
    /\ skip_pages = TRUE
    /\ saved = <<>>
    /\ result = <<>>

SplitIdle ==
    /\ s_pc = "idle"
    /\ s_text = <<>>
    /\ s_max = 0
    /\ s_lines = <<>>

Init == DocxInit /\ SplitIdle

\* lines 85-87 placed after the documents are opened
RaiseFileNotFound_AfterOpen ==
    /\ pc = "start"
    /\ ~exists
    /\ pc' = "raised"
    /\ opened' = TRUE
    /\ UNCHANGED <<exists, paras, text, rows,
                   segment_count, skip_pages, saved, result>>
    /\ UNCHANGED split_vars

\* lines 85-87: the input file is missing
RaiseFileNotFound ==
    /\ pc = "start"
    /\ ~exists
    /\ pc' = "raised"
    /\ UNCHANGED <<exists, opened, paras, text, rows,
                   segment_count, skip_pages, saved, result>>
    /\ UNCHANGED split_vars

\* lines 89-135: both documents are opened and the empty table is created
OpenDocuments ==
    /\ pc = "start"
    /\ exists
    /\ pc' = "loop"
    /\ opened' = TRUE
    /\ rows' = <<>>
    /\ segment_count' = 0
    /\ skip_pages' = TRUE
    /\ UNCHANGED <<exists, paras, text, saved, result>>
    /\ UNCHANGED split_vars

\* lines 138-144: a paragraph before the first segment marker
SkipParagraph(p) ==
    /\ pc = "loop"
    /\ MayRead(p)
    /\ skip_pages
    /\ ~IsSegmentMarker(strip(p))
    /\ paras' = Append(paras, p)
    /\ text' = strip(p)
    /\ UNCHANGED <<pc, exists, opened, rows, segment_count,
                   skip_pages, saved, result>>
    /\ UNCHANGED split_vars

\* lines 138-162: a segment marker
SegmentMarker(p) ==
    /\ pc = "loop"
    /\ MayRead(p)
    /\ IsSegmentMarker(strip(p))
    /\ paras' = Append(paras, p)
    /\ text' = strip(p)
    /\ skip_pages' = FALSE
    /\ segment_count' = segment_count + 1
    /\ rows' = marker_rows(rows, strip(p), segment_count + 1)
    /\ UNCHANGED <<pc, exists, opened, saved, result>>
    /\ UNCHANGED split_vars

\* lines 138-189: a line that matches speaker_pattern
SpeakerLine(p) ==
    /\ pc = "loop"
    /\ MayRead(p)
    /\ ~skip_pages
    /\ ~IsSegmentMarker(strip(p))
    /\ speaker_pattern_match(remove_timecode(strip(p)))
    /\ paras' = Append(paras, p)
    /\ text' = remove_timecode(strip(p))
    /\ rows' = speaker_rows(rows, remove_timecode(strip(p)))
    /\ UNCHANGED <<pc, exists, opened, segment_count,
                   skip_pages, saved, result>>
    /\ UNCHANGED split_vars

\* lines 138-194: any other line
PlainLine(p) ==
    /\ pc = "loop"
    /\ MayRead(p)
    /\ ~skip_pages
    /\ ~IsSegmentMarker(strip(p))
    /\ ~speaker_pattern_match(remove_timecode(strip(p)))
    /\ paras' = Append(paras, p)
    /\ text' = remove_timecode(strip(p))
    /\ rows' = plain_rows(rows, remove_timecode(strip(p)))
    /\ UNCHANGED <<pc, exists, opened, segment_count,
                   skip_pages, saved, result>>
    /\ UNCHANGED split_vars

\* lines 196-203: the paragraphs are exhausted, the document is saved
SaveAndReturn(output_file) ==
    /\ pc = "loop"
    /\ pc' = "done"
    /\ saved' = output_path(output_file)
    /\ result' = output_path(output_file)
    /\ UNCHANGED <<exists, opened, paras, text, rows,
                   segment_count, skip_pages>>
    /\ UNCHANGED split_vars

Next ==
    \/ RaiseFileNotFound
    \/ OpenDocuments
    \/ \E p \in Paragraphs : SkipParagraph(p)
    \/ \E p \in Paragraphs : SegmentMarker(p)
    \/ \E p \in Paragraphs : SpeakerLine(p)
    \/ \E p \in Paragraphs : PlainLine(p)
    \/ \E f \in OutputFiles : SaveAndReturn(f)

Spec == Init /\ [][Next]_vars

-----------------------------------------------------------------------------
(* split_text_into_lines called on its own *)

DocxIdle ==
    /\ pc = "idle"
    /\ exists = FALSE
    /\ opened = FALSE
    /\ paras = <<>>
    /\ text = <<>>
    /\ rows = <<>>
    /\ segment_count = 0
    /\ skip_pages = TRUE
    /\ saved = <<>>
    /\ result = <<>>

SplitInit ==
    /\ DocxIdle
    /\ s_pc = "call"
    /\ s_text \in SplitTexts
    /\ s_max \in 0..MaxWidth
    /\ s_lines = <<>>

\* lines 24-45
CallSplit ==
    /\ s_pc = "call"
    /\ s_pc' = "returned"
    /\ s_lines' = split_text_into_lines(s_text, s_max)
    /\ UNCHANGED <<s_text, s_max>>
    /\ UNCHANGED docx_vars

SplitNext == CallSplit

SplitSpec == SplitInit /\ [][SplitNext]_vars

-----------------------------------------------------------------------------
(* Vocabulary of the properties *)

\* the step reads one paragraph
Reads == Len(paras') = Len(paras) + 1

\* the paragraph read by the step, stripped
NewText == strip(paras'[Len(paras')])

\* the rows appended by the step
NewRows == SubSeq(rows', Len(rows) + 1, Len(rows'))

\* rows are only ever appended
AppendOnly == Len(rows') >= Len(rows) /\ SubSeq(rows', 1, Len(rows)) = rows

\* the text contains a timecode and a run of ten dashes
HasTimecodeAndDashes(t) ==
    /\ \E i \in 1..Len(t) : TimecodeEndAt(t, i) # 0
    /\ \E i \in 1..(Len(t) - 9) : \A j \in i..(i + 9) : t[j] = "-"

\* number of segment markers among the first n paragraphs read
MarkersAmong(ps, n) ==
    Cardinality({i \in 1..n : HasTimecodeAndDashes(strip(ps[i]))})

\* the word is an uppercase token, optionally followed by one colon
IsUpperToken(w) ==
    /\ UpperRun(w) >= 1
    /\ \/ Len(w) = UpperRun(w)
       \/ Len(w) = UpperRun(w) + 1 /\ w[Len(w)] = ":"

\* the uppercase letters of an uppercase token
TokenName(w) == SubSeq(w, 1, UpperRun(w))

\* the value of a string of decimal digits
RECURSIVE DecimalValue(_)
DecimalValue(ds) ==
    IF ds = <<>> THEN 0
    ELSE 10 * DecimalValue(SubSeq(ds, 1, Len(ds) - 1))
         + (CHOOSE d \in 0..9 : DecimalDigits(d) = <<ds[Len(ds)]>>)

\* the digits a string ends with
TrailingDigits(t) ==
    LET n == CHOOSE k \in 0..Len(t) :
                 /\ \A j \in (Len(t) - k + 1)..Len(t) : IsDigit(t[j])
                 /\ k = Len(t) \/ ~IsDigit(t[Len(t) - k])
    IN  SubSeq(t, Len(t) - n + 1, Len(t))

IsPrefix(a, b) == Len(a) <= Len(b) /\ SubSeq(b, 1, Len(a)) = a

\* a full-width row of separator_length dashes, not bold
IsSeparatorRow(r) ==
    /\ r.merged
    /\ ~r.bold
    /\ Len(r.text) = separator_length
    /\ \A j \in 1..Len(r.text) : r.text[j] = "-"

\* a bold full-width row that starts with the timecode and ends with a number
IsHeaderRow(r, timecode) ==
    /\ r.merged
    /\ r.bold
    /\ timecode # <<>>
    /\ IsPrefix(timecode, r.text)
    /\ TrailingDigits(r.text) # <<>>
    /\ Len(TrailingDigits(r.text)) < Len(r.text)

\* what a segment-marker step does apart from the width of the number
MarkerStep(k) ==
    /\ AppendOnly
    /\ Len(NewRows) = 2
    /\ IsSeparatorRow(NewRows[1])
    /\ IsHeaderRow(NewRows[2], segment_marker_pattern_search(NewText))
    /\ DecimalValue(TrailingDigits(NewRows[2].text)) = k

\* a step that reads a paragraph which is not a segment marker adds no full-width row
NoMarkerStep ==
    /\ AppendOnly
    /\ \A i \in 1..Len(NewRows) : ~NewRows[i].merged

-----------------------------------------------------------------------------
(* C1 *)

\* C1 as stated: for max_length >= 1 every returned line has at most
\* max_length characters.
C1_EveryLineWithinMax ==
    (s_pc = "returned" /\ s_max >= 1)
        => \A i \in 1..Len(s_lines) : Len(s_lines[i]) <= s_max

\* C1 as amended: for max_length >= 1 every returned line has at most
\* max_length characters, unless the line is one single word that is itself
\* longer than max_length.
C1_LineWithinMaxOrSingleWord ==
    (s_pc = "returned" /\ s_max >= 1)
        => \A i \in 1..Len(s_lines) :
               \/ Len(s_lines[i]) <= s_max
               \/ /\ Len(split(s_lines[i])) = 1
                  /\ \E j \in 1..Len(split(s_text)) : split(s_text)[j] = s_lines[i]

\* a wrapped result with a full two-word line next to an overlong word
C1_Witness ==
    /\ s_pc = "returned"
    /\ s_max >= 1
    /\ \E i \in 1..Len(s_lines) :
           Len(split(s_lines[i])) = 2 /\ Len(s_lines[i]) = s_max
    /\ \E i \in 1..Len(s_lines) : Len(s_lines[i]) > s_max

-----------------------------------------------------------------------------
(* C2 *)

\* C2: the returned lines joined with single spaces are the words of the
\* text joined with single spaces, and no returned line is empty.
C2_WordsPreserved ==
    s_pc = "returned"
        => /\ join(s_lines) = join(split(s_text))
           /\ \A i \in 1..Len(s_lines) : s_lines[i] # <<>>

\* a text with irregular whitespace wrapped into several lines
C2_Witness ==
    /\ s_pc = "returned"
    /\ Len(s_lines) >= 2
    /\ \E i \in 1..Len(s_lines) : Len(split(s_lines[i])) = 2
    /\ s_text # join(split(s_text))

-----------------------------------------------------------------------------
(* C3 *)

-----------------------------------------------------------------------------
(* C4 *)

\* C4: a non-marker paragraph processed after the first marker whose text
\* begins with an uppercase token gets a first row with the token, colon
\* removed, in the speaker column and the rest of the line as content; any
\* other paragraph gets no speaker.
C4_UpperTokenIsSpeaker ==
    [][(Reads /\ ~skip_pages /\ ~HasTimecodeAndDashes(NewText)) =>
         LET words == split(text') IN
         IF words # <<>> /\ IsUpperToken(words[1])
         THEN /\ Len(NewRows) >= 1
              /\ NewRows[1].speaker = TokenName(words[1])
              /\ join(split(join([i \in 1..Len(NewRows) |-> NewRows[i].content])))
                     = join(Tail(words))
         ELSE \A i \in 1..Len(NewRows) : NewRows[i].speaker = <<>>]_vars

-----------------------------------------------------------------------------
(* C5 *)

\* C5: while the input file is missing nothing is opened, no row is added,
\* nothing is saved and no path is returned; the call ends by raising.
C5_MissingFileRaisesFirst ==
    ~exists => /\ pc \in {"start", "raised"}
               /\ ~opened
               /\ rows = <<>>
               /\ saved = <<>>
               /\ result = <<>>

\* FileNotFoundError has been raised
C5_Witness == pc = "raised" /\ ~exists

-----------------------------------------------------------------------------
(* C6 *)

\* C6: every content cell of every speaker/content row holds at most
\* MAX_LINE_LENGTH characters.
C6_ContentWithinMax ==
    \A i \in 1..Len(rows) :
        ~rows[i].merged => Len(rows[i].content) <= MAX_LINE_LENGTH

-----------------------------------------------------------------------------
(* C7 *)

\* C7: of a non-marker paragraph only the leading timecode and the
\* whitespace next to it are removed before the line is classified; a
\* paragraph that does not begin with a timecode is left unchanged.
C7_OnlyLeadingTimecodeRemoved ==
    [][(Reads /\ ~skip_pages /\ ~HasTimecodeAndDashes(NewText)) =>
         text' = IF TimecodeEndAt(NewText, 1) # 0
                 THEN strip(SubSeq(NewText, TimecodeEndAt(NewText, 1) + 1,
                                   Len(NewText)))
                 ELSE NewText]_vars

-----------------------------------------------------------------------------
(* C8 *)

\* C8: a paragraph that is just an uppercase token with an optional colon
\* produces exactly one row, the name in the speaker column and an empty
\* content column.
C8_SpeakerOnlyRow ==
    [][(Reads /\ ~skip_pages /\ IsUpperToken(NewText)) =>
         /\ Len(NewRows) = 1
         /\ NewRows[1].speaker = TokenName(NewText)
         /\ NewRows[1].content = <<>>]_vars

-----------------------------------------------------------------------------
(* C9 *)

\* what holds of the table in every state
C9_State ==
    /\ skip_pages => rows = <<>>
    /\ rows # <<>> => IsSeparatorRow(rows[1])
    /\ MarkersAmong(paras, Len(paras)) = 0 => rows = <<>>

\* what holds of every step
C9_Step ==
    /\ skip_pages' # skip_pages =>
           /\ skip_pages /\ ~skip_pages'
           /\ Reads
           /\ HasTimecodeAndDashes(NewText)
    /\ (Reads /\ skip_pages /\ ~HasTimecodeAndDashes(NewText)) =>
           rows' = rows /\ skip_pages'
    /\ (Reads /\ ~skip_pages /\ text' # <<>>) =>
           Len(rows') > Len(rows)

\* C9: paragraphs before the first segment marker add no row, the first row
\* of a non-empty table is a separator row, the skip flag only ever goes
\* from true to false, at a segment marker, every non-empty paragraph read
\* after that adds a row, and without a marker the table stays empty.
C9_SkipUntilFirstMarker == []C9_State /\ [][C9_Step]_vars

\* a document whose first paragraphs were skipped, then a marker, then a line
C9_Witness ==
    /\ Len(paras) = 3
    /\ ~HasTimecodeAndDashes(strip(paras[1]))
    /\ strip(paras[1]) # <<>>
    /\ HasTimecodeAndDashes(strip(paras[2]))
    /\ Len(rows) = 3
    /\ ~skip_pages

-----------------------------------------------------------------------------
(* C10 *)

\* C10: a speaker line whose content wraps into n >= 1 lines appends exactly
\* n rows, the first with the speaker and the first line, the others with an
\* empty speaker and the following lines in order; rows are only appended.
C10_SpeakerRowsInWrapOrder ==
    [][/\ AppendOnly
       /\ (Reads /\ ~skip_pages /\ ~HasTimecodeAndDashes(NewText)
                 /\ speaker_pattern_match(text')) =>
            LET words == split(text')
                lines == split_text_into_lines(join(Tail(words)), MAX_LINE_LENGTH)
            IN  /\ Len(lines) >= 1
                /\ Len(NewRows) = Len(lines)
                /\ \A i \in 1..Len(NewRows) :
                       /\ ~NewRows[i].merged
                       /\ NewRows[i].content = lines[i]
                       /\ NewRows[i].speaker =
                              IF i = 1 THEN TokenName(words[1]) ELSE <<>>]_vars

\* a speaker line that wrapped into three rows, after a marker
C10_Witness ==
    /\ Len(rows) >= 5
    /\ rows[Len(rows) - 2].speaker = <<"A">>
    /\ Len(rows[Len(rows) - 2].content) = 60
    /\ rows[Len(rows) - 1].speaker = <<>>
    /\ Len(rows[Len(rows) - 1].content) = MAX_LINE_LENGTH
    /\ ~rows[Len(rows)].merged
    /\ rows[Len(rows)].speaker = <<>>
    /\ rows[Len(rows)].content = <<"d">>

====
